---- MODULE Spec2Model ----
(***************************************************************************)
(* Model of the edge caching proxy /functions/api/alpha/index.js (latest   *)
(* revision, src/unnamed/part_000 lines 199-411): request router, cache    *)
(* lookup, single-flight coordinator, retry/backoff and bundle fan-out.    *)
(*                                                                         *)
(* One execution context (isolate) is modelled.  Every `await` of the      *)
(* handler is a suspension point and therefore a separate action; the code *)
(* between two awaits runs atomically (JavaScript run-to-completion).      *)
(* Time is measured in seconds and advances in steps of TickStep.          *)
(***************************************************************************)
EXTENDS Integers, Sequences, FiniteSets, TLC

\* ------------------------------------------------------------------ bounds
\* number of GET requests the execution context handles at a time
NReq == 2
\* number of distinct clean payload versions the upstream can return
MaxVer == 2
\* granularity of the clock, in seconds
TickStep == 86400
\* Math.random() returns draw / RandDen for a draw in 0..RandDen-1
RandDen == 1000

\* ------------------------------------------------------- program constants
ALLOWED == {"INCOME_STATEMENT", "BALANCE_SHEET", "CASH_FLOW", "OVERVIEW"}
DEFAULT_TTL == 86400 * 3
TTL_MAP == [f \in ALLOWED |-> 86400 * 3]
STALE_WHILE_REVALIDATE == 86400
\* the four legs of a bundle, in the order of the urls array
BundleFunctions == <<"INCOME_STATEMENT", "BALANCE_SHEET", "CASH_FLOW", "OVERVIEW">>

\* ------------------------------------------------------------- JS values
\* A parsed JSON value: null, a number (ver = 0 is the falsy number 0) or an
\* object with the provider's fields; ver identifies the payload content.
JSNull == [type |-> "null", Note |-> FALSE, Information |-> FALSE, ErrorMessage |-> FALSE, ver |-> 0]
JSNumber(v) == [type |-> "number", Note |-> FALSE, Information |-> FALSE, ErrorMessage |-> FALSE, ver |-> v]
JSObject(n, i, e, v) == [type |-> "object", Note |-> n, Information |-> i, ErrorMessage |-> e, ver |-> v]

\* JavaScript truthiness of a parsed value
Truthy(d) == d.type = "object" \/ (d.type = "number" /\ d.ver # 0)

\* A text is either the JSON encoding of a value or something unparseable.
JSONstringify(v) == [json |-> TRUE, value |-> v]
Garbage == [json |-> FALSE, value |-> JSNull]
\* try { data = JSON.parse(txt) } catch {}  with data initialised to null
JSONparse(txt) == IF txt.json THEN txt.value ELSE JSNull

\* String.prototype.toUpperCase on the strings used as inputs, and a handler
\* that takes the parameters as they are written
toUpperCaseNone(s) == s

toUpperCase(s) ==
  CASE s = "aapl" -> "AAPL"
    [] s = "overview" -> "OVERVIEW"
    [] s = "cash_flow" -> "CASH_FLOW"
    [] OTHER -> s

\* ------------------------------------------------------------- responses
NoCacheControl == [maxAge |-> -1, swr |-> -1]

cors ==
  ("Access-Control-Allow-Origin" :> "origin") @@
  ("Access-Control-Allow-Methods" :> "GET, OPTIONS") @@
  ("Access-Control-Allow-Headers" :> "Content-Type") @@
  ("Vary" :> "Origin")

\* json(obj, status, origin, extra): spread order makes extra win
json(obj, status, extra) ==
  [status |-> status,
   body |-> JSONstringify(obj),
   headers |-> extra @@ cors @@ ("content-type" :> "application/json; charset=utf-8"),
   cacheControl |-> NoCacheControl]

\* the error objects {error, detail, kind}: detail is a message and, for the
\* text `Upstream ${status}`, the status it quotes
ErrorValue(error, msg, status, kind) ==
  [type |-> "error", error |-> error, msg |-> msg, status |-> status, kind |-> kind]

\* wrapOk without a stale-while-revalidate window
wrapOkNoStale(body, ttl, headersExtra) ==
  [status |-> 200, body |-> body,
   headers |-> headersExtra @@ cors @@ ("content-type" :> "application/json; charset=utf-8"),
   cacheControl |-> [maxAge |-> ttl, swr |-> 0]]

\* wrapOk with a stale-while-revalidate window twice as long
wrapOkLongStale(body, ttl, headersExtra) ==
  [status |-> 200, body |-> body,
   headers |-> headersExtra @@ cors @@ ("content-type" :> "application/json; charset=utf-8"),
   cacheControl |-> [maxAge |-> ttl, swr |-> 2 * STALE_WHILE_REVALIDATE]]

wrapOk(body, ttl, headersExtra) ==
  [status |-> 200,
   body |-> body,
   headers |-> headersExtra @@ cors @@ ("content-type" :> "application/json; charset=utf-8"),
   cacheControl |-> [maxAge |-> ttl, swr |-> STALE_WHILE_REVALIDATE]]

wrap429(msg, status, kind) ==
  json(ErrorValue("Alpha Vantage", msg, status, kind), 429, ("Retry-After" :> "65"))

Header(resp, name) == IF name \in DOMAIN resp.headers THEN resp.headers[name] ELSE "(absent)"

\* Response.clone(): an independent copy with the same status, headers, body
Clone(resp) == resp

\* no Response object: the handler is still running (status 0) or its promise
\* was rejected (status -1)
NoResp == [status |-> 0, body |-> Garbage, headers |-> <<>>, cacheControl |-> NoCacheControl]
Rejected == [status |-> -1, body |-> Garbage, headers |-> <<>>, cacheControl |-> NoCacheControl]

\* ------------------------------------------------------- upstream client
NoProblem == [status |-> 0, msg |-> "", kind |-> ""]

\* avProblem without the test of data.Information
avProblemNoInformation(data, status) ==
  IF ~Truthy(data) \/ data.type # "object" THEN NoProblem
  ELSE IF status = 429 THEN [status |-> 429, msg |-> "rate_limited", kind |-> "429"]
  ELSE IF data.Note THEN [status |-> 429, msg |-> "Note", kind |-> "note"]
  ELSE IF data.ErrorMessage THEN [status |-> 400, msg |-> "Error Message", kind |-> "error"]
  ELSE NoProblem

avProblem(data, status) ==
  IF ~Truthy(data) \/ data.type # "object" THEN NoProblem
  ELSE IF status = 429 THEN [status |-> 429, msg |-> "rate_limited", kind |-> "429"]
  ELSE IF data.Note THEN [status |-> 429, msg |-> "Note", kind |-> "note"]
  ELSE IF data.Information THEN [status |-> 429, msg |-> "Information", kind |-> "info"]
  ELSE IF data.ErrorMessage THEN [status |-> 400, msg |-> "Error Message", kind |-> "error"]
  ELSE NoProblem

IsProblem(p) == p # NoProblem

\* fetchOnce applied to the HTTP response the upstream gave
fetchOnce(http) ==
  [ok |-> http.status \in 200..299, status |-> http.status,
   data |-> JSONparse(http.text), txt |-> http.text]

\* ------------------------------------------------------------ cache keys
\* A URL string is modelled by its origin followed by its path segments.
\* split(s) gives the segments that the "/" characters of s delimit, for the
\* strings used as inputs.
split(s) ==
  CASE s = "../BUNDLE/AAPL" -> <<"..", "BUNDLE", "AAPL">>
    [] OTHER -> <<s>>

\* parts.join("/"), as segments: the "/" between two parts and a "/" inside
\* a part delimit segments alike
RECURSIVE join(_)
join(parts) == IF parts = <<>> THEN <<>> ELSE split(Head(parts)) \o join(Tail(parts))

\* lines 249-252: `https://alpha-proxy/v3/${parts.join("/")}`
cacheKeyStr(parts) == <<"https://alpha-proxy", "v3">> \o join(parts)

\* new Request(url).url: the URL parser drops "." segments and lets a ".."
\* segment remove the segment before it (never the origin)
RECURSIVE RemoveDotSegments(_, _)
RemoveDotSegments(segs, acc) ==
  IF segs = <<>> THEN acc
  ELSE IF Head(segs) = ".."
  THEN RemoveDotSegments(Tail(segs), IF Len(acc) > 1 THEN SubSeq(acc, 1, Len(acc) - 1) ELSE acc)
  ELSE IF Head(segs) = "."
  THEN RemoveDotSegments(Tail(segs), acc)
  ELSE RemoveDotSegments(Tail(segs), Append(acc, Head(segs)))

\* new Request(url, { method: "GET" }): the cache is keyed by the parsed url
RequestUrl(url) == RemoveDotSegments(url, <<>>)

\* ------------------------------------------------------------------ state
VARIABLES
  env,       \* the environment bindings: env.ALPHA_API_KEY
  cache,     \* caches.default: cache key -> stored response and its age
  inflight,  \* the module-level Map: flight key -> request owning the promise
  req,       \* per request being handled: the handler's position and variables
  sent,      \* the responses returned by the last step: request -> final record
  lastOK     \* history: per cache key, the last successfully fetched body

vars == <<env, cache, inflight, req, sent, lastOK>>

\* age from which every entry is past every window of the model
AgeCap == DEFAULT_TTL + STALE_WHILE_REVALIDATE + TickStep

\* obj tells which Response object resp is: one the handler built itself
\* ("own"), a clone of the producer's result made for this awaiter ("clone"),
\* or the producer's result itself ("shared").
\* delay is the argument of the pending setTimeout, in milliseconds.
\* pc: idle, match, matched, join, fetch, backoff, put, settle (and done, in
\* sent only).  url (its query parameters), fn, bundle, symbol, nocache, hit,
\* out, resp are the handler's variables.  The others are history: role and src are the request's part in
\* a flight and the owner of that flight, round the attempt number, calls the
\* upstream calls its producer issued, classes the classes of the answers of
\* its latest attempt, rl1 whether an answer of the first attempt was
\* rate_limited, overlap whether a producer run for its key was pending at or
\* after its arrival and before it entered singleFlight itself.
NoQuery == [function |-> "", symbol |-> "", bundle |-> "", nocache |-> ""]

IdleReq ==
  [pc |-> "idle", url |-> NoQuery, fn |-> "", bundle |-> FALSE, symbol |-> "", nocache |-> FALSE,
   role |-> "none", src |-> 0, round |-> 0, classes |-> {}, rl1 |-> FALSE, notice |-> FALSE,
   out |-> NoResp, hit |-> NoResp, resp |-> NoResp, obj |-> "none", calls |-> 0, delay |-> 0, overlap |-> FALSE]

\* the request's cache key and flight key (lines 309, 329, 375, 387)
CacheKeyOf(q) ==
  IF q.bundle THEN RequestUrl(cacheKeyStr(<<"BUNDLE", q.symbol>>))
  ELSE RequestUrl(cacheKeyStr(<<q.fn, q.symbol>>))
FlightKeyOf(q) ==
  IF q.bundle THEN cacheKeyStr(<<"BUNDLE-FETCH", q.symbol>>)
  ELSE cacheKeyStr(<<"FETCH", q.fn, q.symbol>>)
\* const ttl = DEFAULT_TTL (bundle) or TTL_MAP[fn] ?? DEFAULT_TTL
TtlOf(q) == IF ~q.bundle /\ q.fn \in DOMAIN TTL_MAP THEN TTL_MAP[q.fn] ELSE DEFAULT_TTL
\* upstream calls of one attempt: urls.map(fetchOnce) or one fetchOnce
LegsOf(q) == IF q.bundle THEN Len(BundleFunctions) ELSE 1

\* ------------------------------------------------------------ cache store
\* cache.match(key): the stored response, or nothing when the key is absent
\* or the entry is past max-age + stale-while-revalidate
CacheMatch(c, key) ==
  IF key \in DOMAIN c /\ c[key].age <= c[key].cacheControl.maxAge + c[key].cacheControl.swr
  THEN c[key] ELSE NoResp

\* cache.put(key, response): whole-entry replacement, age 0
CachePut(c, key, response) ==
  [k \in DOMAIN c \cup {key} |->
     IF k = key
     THEN [status |-> response.status, body |-> response.body, headers |-> response.headers,
           cacheControl |-> response.cacheControl, age |-> 0]
     ELSE c[k]]

\* the response built from a hit without fresh.headers.set("x-proxy-cache", "HIT")
FreshKeepsLabel(hit, ttl) ==
  [status |-> hit.status,
   body |-> hit.body,
   headers |-> hit.headers,
   cacheControl |-> [maxAge |-> ttl, swr |-> STALE_WHILE_REVALIDATE]]

\* the response built from a hit (lines 314-317, 380-383)
Fresh(hit, ttl) ==
  [status |-> hit.status,
   body |-> hit.body,
   headers |-> ("x-proxy-cache" :> "HIT") @@ hit.headers,
   cacheControl |-> [maxAge |-> ttl, swr |-> STALE_WHILE_REVALIDATE]]

\* ------------------------------------------------------- single flight
\* the handler returns response (or rejects)
Finished(q, response) == [q EXCEPT !.pc = "done", !.resp = response, !.obj = "own"]

\* the awaiters of the owner's promise: the owner and the joiners
Awaiters(owner) == {x \in 1..NReq : x = owner \/ (req[x].pc = "join" /\ req[x].src = owner)}

\* singleFlight without the finally: the registry entry is never deleted
SettleKeepsEntry(owner, result) ==
  /\ sent' = [x \in Awaiters(owner) |->
                [Finished(req[x], IF result.status = -1 THEN Rejected ELSE Clone(result))
                   EXCEPT !.obj = "clone"]]
  /\ req' = [x \in 1..NReq |-> IF x \in Awaiters(owner) THEN IdleReq ELSE req[x]]
  /\ inflight' = inflight

\* singleFlight that deletes the registry entry after the await, not in a
\* finally: a rejection leaves the entry behind
SettleLeakOnThrow(owner, result) ==
  /\ sent' = [x \in Awaiters(owner) |->
                [Finished(req[x], IF result.status = -1 THEN Rejected ELSE Clone(result))
                   EXCEPT !.obj = "clone"]]
  /\ req' = [x \in 1..NReq |-> IF x \in Awaiters(owner) THEN IdleReq ELSE req[x]]
  /\ inflight' = IF result.status = -1 THEN inflight
                 ELSE [k \in DOMAIN inflight \ {FlightKeyOf(req[owner])} |-> inflight[k]]

\* singleFlight whose owner returns res itself instead of res.clone()
SettleOwnerShared(owner, result) ==
  /\ sent' = [x \in Awaiters(owner) |->
                [Finished(req[x], IF result.status = -1 THEN Rejected ELSE Clone(result))
                   EXCEPT !.obj = IF x = owner THEN "shared" ELSE "clone"]]
  /\ req' = [x \in 1..NReq |-> IF x \in Awaiters(owner) THEN IdleReq ELSE req[x]]
  /\ inflight' = [k \in DOMAIN inflight \ {FlightKeyOf(req[owner])} |-> inflight[k]]

\* the producer promise settles: the owner's finally removes the registry
\* entry, the owner and every joiner get their own clone (or the rejection)
Settle(owner, result) ==
  /\ sent' = [x \in Awaiters(owner) |->
                [Finished(req[x], IF result.status = -1 THEN Rejected ELSE Clone(result))
                   EXCEPT !.obj = "clone"]]
  /\ req' = [x \in 1..NReq |-> IF x \in Awaiters(owner) THEN IdleReq ELSE req[x]]
  /\ inflight' = [k \in DOMAIN inflight \ {FlightKeyOf(req[owner])} |-> inflight[k]]

\* one attempt of the producer is issued: every leg's fetch is now pending
IssueRound(q, n) ==
  [q EXCEPT !.pc = "fetch", !.round = n, !.calls = @ + LegsOf(q), !.classes = {}, !.notice = FALSE]

\* singleFlight without the test inflight.has(key): every caller starts a
\* producer and registers it
EnterFlightNoCheck(r, q) ==
  /\ req' = [req EXCEPT ![r] = IssueRound([q EXCEPT !.role = "owner", !.src = r], 1)]
  /\ inflight' = (FlightKeyOf(q) :> r) @@ inflight

\* singleFlight(key, fn) up to its first await: join the pending promise, or
\* start the producer (which runs up to its first fetch) and register it
EnterFlight(r, q) ==
  LET key == FlightKeyOf(q) IN
  IF key \in DOMAIN inflight
  THEN /\ req' = [req EXCEPT ![r] = [q EXCEPT !.pc = "join", !.role = "joiner", !.src = inflight[key]]]
       /\ inflight' = inflight
  ELSE /\ req' = [x \in 1..NReq |->
                    IF x = r THEN IssueRound([q EXCEPT !.role = "owner", !.src = r], 1)
                    ELSE IF req[x].pc \in {"match", "matched"} /\ FlightKeyOf(req[x]) = key
                    THEN [req[x] EXCEPT !.overlap = TRUE]
                    ELSE req[x]]
       /\ inflight' = (key :> r) @@ inflight

\* ------------------------------------------------------------- producers
\* Clean without the test of the HTTP status
CleanAnyStatus(p) == ~IsProblem(avProblem(p.data, p.status)) /\ Truthy(p.data)

Clean(p) == p.ok /\ ~IsProblem(avProblem(p.data, p.status)) /\ Truthy(p.data)

BundleValue(parts) ==
  [type |-> "bundle", income_statement |-> parts[1].data, balance_sheet |-> parts[2].data,
   cash_flow |-> parts[3].data, overview |-> parts[4].data]

\* the bundle producer with parts.some in place of parts.every
BundleOutcomeSome(q, parts) ==
  IF \E i \in DOMAIN parts : Clean(parts[i])
  THEN wrapOk(JSONstringify(BundleValue(parts)), TtlOf(q), ("x-proxy-cache" :> "MISS-BUNDLE"))
  ELSE wrap429("Bundle throttled and no cached copy", 0, "bundle")

\* the bundle producer that gives up once it has had to retry
BundleOutcomeFirstRoundOnly(q, parts) ==
  IF q.round = 1 /\ \A i \in DOMAIN parts : Clean(parts[i])
  THEN wrapOk(JSONstringify(BundleValue(parts)), TtlOf(q), ("x-proxy-cache" :> "MISS-BUNDLE"))
  ELSE wrap429("Bundle throttled and no cached copy", 0, "bundle")

\* lines 341-355: the bundle producer after its last round
BundleOutcome(q, parts) ==
  IF \A i \in DOMAIN parts : Clean(parts[i])
  THEN wrapOk(JSONstringify(BundleValue(parts)), TtlOf(q), ("x-proxy-cache" :> "MISS-BUNDLE"))
  ELSE wrap429("Bundle throttled and no cached copy", 0, "bundle")

\* the single-statement producer without the test of res.ok
SingleOutcomeAnyStatus(q, parts) ==
  LET p == parts[1]
      problem == avProblem(p.data, p.status) IN
  IF ~IsProblem(problem) /\ Truthy(p.data)
  THEN wrapOk(JSONstringify(p.data), TtlOf(q), ("x-proxy-cache" :> "MISS"))
  ELSE IF IsProblem(problem) THEN wrap429(problem.msg, 0, problem.kind)
  ELSE wrap429("Upstream", p.status, "upstream")

\* lines 400-407: the single-statement producer after its last attempt
SingleOutcome(q, parts) ==
  LET p == parts[1]
      problem == avProblem(p.data, p.status) IN
  IF p.ok /\ ~IsProblem(problem) /\ Truthy(p.data)
  THEN wrapOk(JSONstringify(p.data), TtlOf(q), ("x-proxy-cache" :> "MISS"))
  ELSE IF IsProblem(problem) THEN wrap429(problem.msg, 0, problem.kind)
  ELSE wrap429("Upstream", p.status, "upstream")

Outcome(q, parts) == IF q.bundle THEN BundleOutcome(q, parts) ELSE SingleOutcome(q, parts)

\* a producer that retries after every attempt that had a problem
RetriesAgain(q, parts) ==
  \E i \in DOMAIN parts : IsProblem(avProblem(parts[i].data, parts[i].status))

\* lines 334-335 and 391-393: is the first attempt followed by the backoff
\* and a second attempt
Retries(q, parts) ==
  q.round = 1 /\ \E i \in DOMAIN parts : IsProblem(avProblem(parts[i].data, parts[i].status))

\* a producer that never writes the cache, and one that always does
WritesCacheNever(q) == FALSE
WritesCacheAlways(q) == TRUE

\* lines 350 and 402: if (!nocache) await cache.put(...)
WritesCache(q) == ~q.nocache

\* a handler that looks the cache up whatever nocache says
ReadsCacheAlways(q) == TRUE

\* lines 311 and 377: if (!nocache) { const hit = await cache.match(...) }
ReadsCache(q) == ~q.nocache

\* ------------------------------------------------------------- histories
\* The class of an upstream answer in the terms of the specification's
\* problem taxonomy, used to state the claims (not by the program).
Classify(http) ==
  LET v == http.text.value
      isObject == http.text.json /\ v.type = "object" IN
  IF http.status = 429 THEN "rate_limited"
  ELSE IF isObject /\ (v.Note \/ v.Information) THEN "rate_limited"
  ELSE IF isObject /\ v.ErrorMessage THEN "bad_request"
  ELSE IF http.status \notin 200..299 \/ ~http.text.json THEN "upstream_failure"
  ELSE "success"

Classes(https) == {Classify(https[i]) : i \in DOMAIN https}

\* an answer with HTTP status 200 whose body carries an embedded throttle
\* notice, and an attempt some answer of which is one
EmbeddedNotice(http) ==
  /\ http.status = 200 /\ http.text.json /\ http.text.value.type = "object"
  /\ (http.text.value.Note \/ http.text.value.Information)

HasNotice(https) == \E i \in DOMAIN https : EmbeddedNotice(https[i])

NoteOK(l, key, response, nocache) ==
  (key :> [body |-> response.body, age |-> 0, nocache |-> nocache]) @@ l

\* ---------------------------------------------------------------- router
\* a handler that takes any environment for a configured one
HasKeyAlways(e) == TRUE

\* line 298: if (!env.ALPHA_API_KEY)
HasKey(e) == e.ALPHA_API_KEY # ""

\* a handler that asks for the symbol in single-statement mode only
HasSymbolOrBundle(q) == q.symbol # "" \/ q.bundle

\* line 301: if (!symbol)
HasSymbol(q) == q.symbol # ""

\* a handler that tests the function name in bundle mode too
NeedsFunctionAlways(q) == TRUE

\* lines 306-364: the function test is reached only outside the bundle branch
NeedsFunction(q) == ~q.bundle

\* a handler that takes any non-empty function name
AllowedFunctionNonEmpty(fn) == fn # ""

\* line 362: if (!fn || !ALLOWED.has(fn))
AllowedFunction(fn) == fn # "" /\ fn \in ALLOWED

\* lines 291-296: the parameters read from the query string
Parsed(query) ==
  [IdleReq EXCEPT !.url = query,
                  !.fn = toUpperCase(query.function),
                  !.bundle = query.bundle = "1",
                  !.symbol = toUpperCase(query.symbol),
                  !.nocache = query.nocache = "1"]

\* --------------------------------------------------------------- actions
\* A GET request arrives: onRequestGet runs up to its first await
Arrive(r, query) ==
  LET q0 == Parsed(query)
      fn == q0.fn
      q == [q0 EXCEPT !.overlap = FlightKeyOf(q0) \in DOMAIN inflight]
      reply(response) == /\ sent' = (r :> Finished(q0, response))
                         /\ UNCHANGED <<req, inflight>>
  IN
  /\ req[r].pc = "idle"
  /\ \A x \in 1..NReq : x < r => req[x].pc # "idle"
  /\ IF ~HasKey(env)
     THEN reply(json(ErrorValue("ALPHA_API_KEY is not configured.", "", 0, ""), 500, <<>>))
     ELSE IF ~HasSymbol(q0)
     THEN reply(json(ErrorValue("Bad request: missing symbol.", "", 0, ""), 400, <<>>))
     ELSE IF NeedsFunction(q0) /\ ~AllowedFunction(fn)
     THEN reply(json(ErrorValue("Bad request: missing/invalid function.", "", 0, ""), 400, <<>>))
     ELSE IF ReadsCache(q)
     THEN /\ req' = [req EXCEPT ![r] = [q EXCEPT !.pc = "match"]]
          /\ inflight' = inflight
          /\ sent' = <<>>
     ELSE EnterFlight(r, q) /\ sent' = <<>>
  /\ UNCHANGED <<env, cache, lastOK>>

\* An OPTIONS request arrives: onRequestOptions answers the preflight
onRequestOptions(r) ==
  /\ req[r].pc = "idle"
  /\ \A x \in 1..NReq : x < r => req[x].pc # "idle"
  /\ sent' = (r :> [IdleReq EXCEPT !.pc = "preflight", !.obj = "own",
                                   !.resp = [status |-> 200, body |-> Garbage, headers |-> cors,
                                             cacheControl |-> NoCacheControl]])
  /\ UNCHANGED <<env, cache, inflight, req, lastOK>>

\* the cache service looks the key up
MatchRead(r) ==
  /\ req[r].pc = "match"
  /\ req' = [req EXCEPT ![r].pc = "matched", ![r].hit = CacheMatch(cache, CacheKeyOf(req[r]))]
  /\ sent' = <<>>
  /\ UNCHANGED <<env, cache, inflight, lastOK>>

\* await cache.match(...) returns: serve the hit, or go through singleFlight
MatchReturn(r) ==
  /\ req[r].pc = "matched"
  /\ IF req[r].hit.status # 0
     THEN /\ sent' = (r :> Finished(req[r], Fresh(req[r].hit, TtlOf(req[r]))))
          /\ req' = [req EXCEPT ![r] = IdleReq]
          /\ inflight' = inflight
     ELSE EnterFlight(r, req[r]) /\ sent' = <<>>
  /\ UNCHANGED <<env, cache, lastOK>>

\* the draws of Math.random() that are examined: the least, the middle one
\* and the greatest
Draws == {0, RandDen \div 2, RandDen - 1}

\* a bundle backoff of 1200 + Math.floor(Math.random() * 700)
DelayWide(q, draw) ==
  IF q.bundle THEN 1200 + ((draw * 700) \div RandDen) ELSE 1000 + ((draw * 500) \div RandDen)

\* lines 336, 395: the backoff delay, 1200 + Math.floor(Math.random() * 600)
\* for a bundle and 1000 + Math.floor(Math.random() * 500) for a single
Delay(q, draw) ==
  IF q.bundle THEN 1200 + ((draw * 600) \div RandDen) ELSE 1000 + ((draw * 500) \div RandDen)

\* await fetchOnce / await Promise.all(urls.map(fetchOnce)) returns with the
\* upstream's answers: back off and retry, or build the producer's result,
\* which a producer that writes the cache first hands to cache.put
RoundReturn(r, https) ==
  /\ req[r].pc = "fetch"
  /\ Len(https) = LegsOf(req[r])
  /\ LET parts == [i \in DOMAIN https |-> fetchOnce(https[i])]
         q == [req[r] EXCEPT !.classes = Classes(https),
                             !.notice = HasNotice(https),
                             !.rl1 = IF req[r].round = 1 THEN "rate_limited" \in Classes(https) ELSE @]
         out == Outcome(q, parts) IN
     \E draw \in Draws :
     req' = [req EXCEPT ![r] =
               IF Retries(q, parts) THEN [q EXCEPT !.pc = "backoff", !.delay = Delay(q, draw)]
               ELSE IF out.status = 200 /\ WritesCache(q) THEN [q EXCEPT !.pc = "put", !.out = out]
               ELSE [q EXCEPT !.pc = "settle", !.out = out]]
  /\ sent' = <<>>
  /\ UNCHANGED <<env, cache, inflight, lastOK>>

\* fetch() rejects (network error): Promise.all and the producer reject, the
\* finally of singleFlight removes the registry entry, every awaiter rejects
RoundThrow(r) ==
  /\ req[r].pc = "fetch"
  /\ Settle(r, Rejected)
  /\ UNCHANGED <<env, cache, lastOK>>

\* the backoff timer fires: the second attempt is issued
BackoffElapsed(r) ==
  /\ req[r].pc = "backoff"
  /\ req' = [req EXCEPT ![r] = [IssueRound(req[r], 2) EXCEPT !.delay = 0]]
  /\ sent' = <<>>
  /\ UNCHANGED <<env, cache, inflight, lastOK>>

\* the cache service stores the clone handed to cache.put
PutWrite(r) ==
  /\ req[r].pc = "put"
  /\ cache' = CachePut(cache, CacheKeyOf(req[r]), Clone(req[r].out))
  /\ req' = [req EXCEPT ![r].pc = "settle"]
  /\ sent' = <<>>
  /\ UNCHANGED <<env, inflight>>

\* the producer returns out: the owner's await p and every joiner's then run
Return(r) ==
  /\ req[r].pc = "settle"
  /\ Settle(r, req[r].out)
  /\ UNCHANGED <<env, cache>>

\* The history of successful fetches, kept by the timed specification only:
\* a fetch is noted when its producer stores it, or, for a producer that
\* does not store, when it returns.
ObservePut(r) ==
  lastOK' = NoteOK(lastOK, CacheKeyOf(req[r]), req[r].out, req[r].nocache)

ObserveReturn(r) ==
  lastOK' = IF req[r].out.status = 200 /\ ~WritesCache(req[r])
            THEN NoteOK(lastOK, CacheKeyOf(req[r]), req[r].out, req[r].nocache)
            ELSE lastOK

\* time passes
Older(a) == IF a + TickStep > AgeCap THEN AgeCap ELSE a + TickStep
Tick ==
  /\ \E k \in DOMAIN lastOK : lastOK[k].age < AgeCap
  /\ cache' = [k \in DOMAIN cache |-> [cache[k] EXCEPT !.age = Older(@)]]
  /\ lastOK' = [k \in DOMAIN lastOK |-> [lastOK[k] EXCEPT !.age = Older(@)]]
  /\ sent' = <<>>
  /\ UNCHANGED <<env, inflight, req>>

\* ---------------------------------------------------------------- inputs
\* what the upstream answers: a clean payload of some version, a throttle
\* notice (Note or Information), a provider error message, an HTTP error with an unparseable body,
\* or an HTTP error whose body is a JSON object without any notice
Reply(kind, v) ==
  CASE kind = "clean" -> [status |-> 200, text |-> JSONstringify(JSObject(FALSE, FALSE, FALSE, v))]
    [] kind = "note" -> [status |-> 200, text |-> JSONstringify(JSObject(TRUE, FALSE, FALSE, 0))]
    [] kind = "info" -> [status |-> 200, text |-> JSONstringify(JSObject(FALSE, TRUE, FALSE, 0))]
    [] kind = "error" -> [status |-> 200, text |-> JSONstringify(JSObject(FALSE, FALSE, TRUE, 0))]
    [] kind = "http429" -> [status |-> 429, text |-> Garbage]
    [] kind = "http500" -> [status |-> 500, text |-> Garbage]
    [] kind = "json500" -> [status |-> 500, text |-> JSONstringify(JSObject(FALSE, FALSE, FALSE, v))]

Kinds == {"clean", "note", "info", "error", "http429", "http500", "json500"}

\* the answers to the legs of one attempt.  One attempt is answered from one
\* version of the provider's data; in a bundle round the four legs get the
\* same kind of answer, or three legs are clean and one leg gets another kind.
SingleAnswers == {<<Reply(k, v)>> : k \in Kinds, v \in 1..MaxVer}
BundleAnswers ==
  {[i \in 1..Len(BundleFunctions) |-> Reply(k, v)] : k \in Kinds, v \in 1..MaxVer}
  \cup {[i \in 1..Len(BundleFunctions) |-> Reply(IF i = j THEN k ELSE "clean", v)] :
           k \in Kinds, j \in 1..Len(BundleFunctions), v \in 1..MaxVer}
Answers(q) == IF q.bundle THEN BundleAnswers ELSE SingleAnswers

Queries ==
  {[function |-> "overview", symbol |-> "aapl", bundle |-> "", nocache |-> n] : n \in {"", "1"}}
  \cup {[function |-> "", symbol |-> "AAPL", bundle |-> "1", nocache |-> n] : n \in {"", "1"}}
  \cup {[function |-> "BOGUS", symbol |-> "AAPL", bundle |-> "", nocache |-> ""],
        [function |-> "OVERVIEW", symbol |-> "", bundle |-> "1", nocache |-> ""]}

\* the cache keys that the behaviour so far is about
KeysInUse ==
  DOMAIN cache \cup DOMAIN lastOK \cup {CacheKeyOf(req[x]) : x \in {y \in 1..NReq : req[y].pc # "idle"}}

\* A behaviour is about one cache key: a query that gets past the router
\* arrives only when its key is the one in use, if any is.
SameKey(query) ==
  LET q == [fn |-> toUpperCase(query.function), bundle |-> query.bundle = "1",
            symbol |-> toUpperCase(query.symbol)] IN
  (q.symbol # "" /\ (q.bundle \/ q.fn \in ALLOWED)) => KeysInUse \subseteq {CacheKeyOf(q)}

Quiet == \A x \in 1..NReq : req[x].pc = "idle"

Init ==
  /\ env \in {[ALPHA_API_KEY |-> "key"], [ALPHA_API_KEY |-> ""]}
  /\ cache = <<>>
  /\ inflight = <<>>
  /\ req = [r \in 1..NReq |-> IdleReq]
  /\ sent = <<>>
  /\ lastOK = <<>>

\* the requests of one execution context, handled concurrently; no entry
\* ages while they are handled, and the history of fetches is not kept
Next ==
  \/ \E r \in 1..NReq, query \in Queries : SameKey(query) /\ Arrive(r, query)
  \/ \E r \in 1..NReq : MatchRead(r)
  \/ \E r \in 1..NReq : MatchReturn(r)
  \/ \E r \in 1..NReq : req[r].pc = "fetch" /\ \E https \in Answers(req[r]) : RoundReturn(r, https)
  \/ \E r \in 1..NReq : RoundThrow(r)
  \/ \E r \in 1..NReq : BackoffElapsed(r)
  \/ \E r \in 1..NReq : PutWrite(r) /\ UNCHANGED lastOK
  \/ \E r \in 1..NReq : Return(r) /\ UNCHANGED lastOK

Spec == Init /\ [][Next]_vars

\* Every await of a request's handler eventually returns: the cache lookup,
\* the upstream calls of an attempt (with answers or a rejection), the
\* backoff timer, cache.put, and the settling of the producer's promise.
\* A joiner has no step of its own; it is settled by its owner's.
Progress(r) ==
  \/ MatchRead(r)
  \/ MatchReturn(r)
  \/ req[r].pc = "fetch" /\ \E https \in Answers(req[r]) : RoundReturn(r, https)
  \/ RoundThrow(r)
  \/ BackoffElapsed(r)
  \/ PutWrite(r) /\ UNCHANGED lastOK
  \/ Return(r) /\ UNCHANGED lastOK

SpecLive == Init /\ [][Next]_vars /\ \A r \in 1..NReq : WF_vars(Progress(r))

\* requests handled one after the other while time passes
NextTime ==
  \/ \E query \in Queries : Quiet /\ SameKey(query) /\ Arrive(1, query)
  \/ MatchRead(1)
  \/ MatchReturn(1)
  \/ req[1].pc = "fetch" /\ \E https \in Answers(req[1]) : RoundReturn(1, https)
  \/ RoundThrow(1)
  \/ BackoffElapsed(1)
  \/ PutWrite(1) /\ ObservePut(1)
  \/ Return(1) /\ ObserveReturn(1)
  \/ Tick

SpecTime == Init /\ [][NextTime]_vars

\* the query strings of the router: every parameter absent (or empty), well
\* formed, in another letter case, or not a recognised value
QueryGrid ==
  [function : {"", "overview", "OVERVIEW", "cash_flow", "BOGUS"},
   symbol : {"", "aapl"},
   bundle : {"", "1", "true"},
   nocache : {"", "1"}]

\* requests of every kind and for several keys, handled one after the other
NextRouter ==
  \/ \E query \in QueryGrid : Quiet /\ Arrive(1, query)
  \/ Quiet /\ onRequestOptions(1)
  \/ MatchRead(1)
  \/ MatchReturn(1)
  \/ req[1].pc = "fetch" /\ \E https \in Answers(req[1]) : RoundReturn(1, https)
  \/ RoundThrow(1)
  \/ BackoffElapsed(1)
  \/ PutWrite(1) /\ UNCHANGED lastOK
  \/ Return(1) /\ UNCHANGED lastOK

SpecRouter == Init /\ [][NextRouter]_vars

\* the same requests written in different letter cases
CaseGrid ==
  [function : {"overview", "OVERVIEW"},
   symbol : {"aapl", "AAPL"},
   bundle : {"", "1"},
   nocache : {"", "1"}]

\* A behaviour fetches bundles or single statements, not both: once a fetch
\* has succeeded, the queries that arrive are of its kind.
SameShape(query) ==
  \A k \in DOMAIN lastOK :
    (\E sym \in {"aapl", "AAPL"} : k = cacheKeyStr(<<"BUNDLE", sym>>)) <=> (query.bundle = "1")

\* requests in every letter case, handled one after the other, with the
\* history of successful fetches kept
NextCase ==
  \/ \E query \in CaseGrid : Quiet /\ SameShape(query) /\ Arrive(1, query)
  \/ MatchRead(1)
  \/ MatchReturn(1)
  \/ req[1].pc = "fetch" /\ \E https \in Answers(req[1]) : RoundReturn(1, https)
  \/ RoundThrow(1)
  \/ BackoffElapsed(1)
  \/ PutWrite(1) /\ ObservePut(1)
  \/ Return(1) /\ ObserveReturn(1)

SpecCase == Init /\ [][NextCase]_vars

\* requests for two kinds of statement and for the bundle, with a symbol
\* that holds "/" characters among the symbols
KeyGrid ==
  [function : {"overview", "cash_flow"},
   symbol : {"aapl", "../BUNDLE/AAPL"},
   bundle : {"", "1"},
   nocache : {"", "1"}]

\* requests for several keys, handled one after the other
NextKeys ==
  \/ \E query \in KeyGrid : Quiet /\ Arrive(1, query)
  \/ MatchRead(1)
  \/ MatchReturn(1)
  \/ req[1].pc = "fetch" /\ \E https \in Answers(req[1]) : RoundReturn(1, https)
  \/ RoundThrow(1)
  \/ BackoffElapsed(1)
  \/ PutWrite(1) /\ UNCHANGED lastOK
  \/ Return(1) /\ UNCHANGED lastOK

SpecKeys == Init /\ [][NextKeys]_vars

\* ---------------------------------------------------------------- claims
\* vocabulary of the claims
Label(response) == Header(response, "x-proxy-cache")

\* a request that gets past the router (lines 298-303, 362-364)
Valid(q) == env.ALPHA_API_KEY # "" /\ q.symbol # "" /\ (q.bundle \/ q.fn \in ALLOWED)

\* a parsed provider payload without any notice
CleanValue(v) == v.type = "object" /\ ~v.Note /\ ~v.Information /\ ~v.ErrorMessage

\* a body that is the JSON text of a clean single payload, or of the four
\* sections of a bundle, each a clean payload
CleanBody(q, body) ==
  /\ body.json
  /\ IF q.bundle
     THEN /\ body.value.type = "bundle"
          /\ CleanValue(body.value.income_statement)
          /\ CleanValue(body.value.balance_sheet)
          /\ CleanValue(body.value.cash_flow)
          /\ CleanValue(body.value.overview)
     ELSE CleanValue(body.value)

\* the requests whose responses are delivered in this state
Delivered == DOMAIN sent

\* C1: requests for one uncached key that are handled concurrently share
\* exactly one producer run and get equivalent results: a request that missed
\* the cache while another request's run for its key was pending or starting
\* does not start a run of its own once that run has succeeded and stored
\* its result, and the responses delivered by one run agree in status and
\* body.
C1_OneProducerRun ==
  /\ \A r \in 1..NReq :
       (req[r].role = "owner" /\ req[r].overlap) => CacheKeyOf(req[r]) \notin DOMAIN cache
  /\ \A r \in Delivered : \A x \in Delivered :
       (sent[r].src # 0 /\ sent[r].src = sent[x].src) =>
          (sent[r].resp.status = sent[x].resp.status /\ sent[r].resp.body = sent[x].resp.body)

C3_OnlyCleanSuccessCached ==
  /\ \A k \in DOMAIN cache :
       /\ cache[k].status = 200
       /\ CleanBody([bundle |-> k[3] = "BUNDLE"], cache[k].body)
  /\ \A r \in 1..NReq :
       req[r].pc = "put" =>
         /\ req[r].classes = {"success"}
         /\ req[r].out.status = 200
         /\ CleanBody(req[r], req[r].out.body)

C3_Witness ==
  \E r \in 1..NReq :
    /\ req[r].pc = "settle" /\ req[r].round = 2
    /\ CacheKeyOf(req[r]) \in DOMAIN cache
    /\ cache[CacheKeyOf(req[r])].body = req[r].out.body

\* C4: a valid request with nocache=1 is never answered from the cache: its
\* response is not a HIT, it never looked the cache up, and it is the result
\* of a producer run that made at least one upstream call.
C4_NocacheGoesLive ==
  \A r \in Delivered :
    (Valid(sent[r]) /\ sent[r].url.nocache = "1") =>
      /\ Label(sent[r].resp) # "HIT"
      /\ sent[r].hit.status = 0
      /\ sent[r].role \in {"owner", "joiner"}
      /\ sent[r].src \in Delivered
      /\ sent[sent[r].src].calls >= 1

C4_Witness ==
  \E r \in Delivered :
    /\ Valid(sent[r]) /\ sent[r].url.nocache = "1" /\ sent[r].role = "owner"
    /\ sent[r].resp.status = 200
    /\ CacheMatch(cache, CacheKeyOf(sent[r])).status = 200
    /\ CacheMatch(cache, CacheKeyOf(sent[r])).body # sent[r].resp.body

C6_Bundle200OnlyAllClean ==
  \A r \in Delivered :
    (sent[r].bundle /\ sent[r].resp.status = 200) =>
      /\ CleanBody(sent[r], sent[r].resp.body)
      /\ Label(sent[r].resp) \in {"HIT", "MISS-BUNDLE"}
      /\ Label(sent[r].resp) = "MISS-BUNDLE" =>
           /\ sent[r].src \in Delivered
           /\ sent[sent[r].src].classes = {"success"}
           /\ sent[sent[r].src].calls \in {Len(BundleFunctions), 2 * Len(BundleFunctions)}

C6_Witness ==
  \E r \in Delivered :
    /\ sent[r].bundle /\ sent[r].resp.status = 200 /\ sent[r].role = "owner"
    /\ Label(sent[r].resp) = "MISS-BUNDLE"
    /\ sent[r].round = 2 /\ sent[r].classes = {"success"}

C8_FailedBundleNoWrite ==
  [][/\ \A r \in 1..NReq :
          (req[r].bundle /\ req[r].role = "owner" /\ req'[r] # req[r]
             /\ (req'[r].pc \in {"put", "settle"} \/ req[r].pc \in {"put", "settle"})
             /\ (IF req'[r].pc = "idle" THEN req[r].classes ELSE req'[r].classes) # {"success"})
          => /\ cache' = cache
             /\ req'[r].pc # "put"
             /\ req'[r].pc = "settle" => req'[r].out.status = 429
     /\ \A r \in DOMAIN sent' :
          (sent'[r].bundle /\ sent'[r].role = "owner" /\ sent'[r].resp.status # -1
             /\ sent'[r].classes # {"success"})
          => /\ sent'[r].resp.status = 429
             /\ Header(sent'[r].resp, "Retry-After") = "65"
             /\ Label(sent'[r].resp) = "(absent)"]_vars

C8_Witness ==
  \E r \in Delivered :
    /\ sent[r].bundle /\ sent[r].role = "owner" /\ sent[r].round = 2
    /\ "success" \in sent[r].classes /\ sent[r].classes # {"success"}
    /\ sent[r].resp.status = 429
    /\ cache = <<>>

\* C9: an entry that is past its TTL but within the stale-while-revalidate
\* window is served: a lookup in that window finds the entry, and a request
\* that found an entry is answered with its body without any upstream call.
C9_StaleServed ==
  [][/\ \A r \in 1..NReq :
          LET k == CacheKeyOf(req[r]) IN
          (req[r].pc = "match" /\ req'[r].pc = "matched" /\ k \in DOMAIN cache
             /\ cache[k].age > TtlOf(req[r])
             /\ cache[k].age <= TtlOf(req[r]) + STALE_WHILE_REVALIDATE)
          => (req'[r].hit.status = 200 /\ req'[r].hit.body = cache[k].body
                /\ req'[r].hit.age = cache[k].age)
     /\ \A r \in 1..NReq :
          (req[r].pc = "matched" /\ req[r].hit.status = 200 /\ req[r].hit.age > TtlOf(req[r])
             /\ req'[r] # req[r])
          => /\ r \in DOMAIN sent'
             /\ sent'[r].resp.status = 200
             /\ sent'[r].resp.body = req[r].hit.body
             /\ sent'[r].calls = 0 /\ sent'[r].role = "none"
             /\ inflight' = inflight]_vars

C9_Witness ==
  \E r \in Delivered :
    /\ Label(sent[r].resp) = "HIT" /\ sent[r].calls = 0
    /\ sent[r].hit.age > TtlOf(sent[r])
    /\ sent[r].hit.age <= TtlOf(sent[r]) + STALE_WHILE_REVALIDATE

\* C10: an entry past the end of its stale window is never served: a lookup
\* past the window misses, the request then goes through a producer run that
\* calls the upstream before any response, and no response carries the body
\* of an entry that was past its window when it was looked up.
C10_ExpiredNeverServed ==
  [][/\ \A r \in 1..NReq :
          LET k == CacheKeyOf(req[r]) IN
          (req[r].pc = "match" /\ req'[r].pc = "matched" /\ k \in DOMAIN cache
             /\ cache[k].age > TtlOf(req[r]) + STALE_WHILE_REVALIDATE)
          => req'[r].hit.status = 0
     /\ \A r \in 1..NReq :
          (req[r].pc = "matched" /\ req[r].hit.status = 0 /\ req'[r] # req[r])
          => /\ sent' = <<>>
             /\ req'[r].role \in {"owner", "joiner"}
             /\ req'[r].role = "owner" => (req'[r].pc = "fetch" /\ req'[r].calls = LegsOf(req[r]))
     /\ \A r \in DOMAIN sent' :
          Label(sent'[r].resp) = "HIT" =>
            sent'[r].hit.age <= TtlOf(sent'[r]) + STALE_WHILE_REVALIDATE]_vars

C10_Witness ==
  \E r \in 1..NReq :
    LET k == CacheKeyOf(req[r]) IN
    /\ req[r].pc = "fetch" /\ req[r].url.nocache # "1"
    /\ k \in DOMAIN cache
    /\ cache[k].age > TtlOf(req[r]) + STALE_WHILE_REVALIDATE

\* the response to a GET request that the router turned away: no upstream
\* call, no cache lookup, no flight (and so no cache write) on its path
TurnedAway(q, status) ==
  /\ q.resp.status = status
  /\ q.calls = 0 /\ q.hit.status = 0 /\ q.role = "none" /\ q.round = 0

\* C11 (as stated): a GET request whose symbol parameter is missing or empty
\* is answered 400 whatever its other parameters, without upstream call or
\* cache access.
C11_NoSymbol400 ==
  \A r \in Delivered :
    (sent[r].pc = "done" /\ sent[r].url.symbol = "") => TurnedAway(sent[r], 400)

\* C11 (amended): when the credential is configured, a GET request whose
\* symbol parameter is missing or empty is answered 400 whatever its function,
\* bundle and nocache parameters, by the step that receives it, which makes
\* no upstream call and leaves the cache and the flight registry as they were.
C11_NoSymbol400WhenConfigured ==
  [][\A r \in DOMAIN sent' :
       (HasKey(env) /\ sent'[r].pc = "done" /\ sent'[r].url.symbol = "")
       => /\ TurnedAway(sent'[r], 400)
          /\ cache' = cache /\ inflight' = inflight /\ req' = req]_vars

C11_Witness ==
  \E r \in Delivered :
    /\ sent[r].pc = "done" /\ sent[r].url.symbol = ""
    /\ sent[r].url.bundle = "1" /\ sent[r].url.nocache = "1"
    /\ sent[r].resp.status = 400
    /\ cache # <<>>

\* C12 (as stated): a GET request without bundle=1 whose function parameter
\* is absent or not one of the four statement kinds is answered 400, without
\* upstream call or cache access.
C12_BadFunction400 ==
  \A r \in Delivered :
    (sent[r].pc = "done" /\ sent[r].url.bundle # "1"
       /\ toUpperCase(sent[r].url.function) \notin ALLOWED)
    => TurnedAway(sent[r], 400)

\* C12 (amended): when the credential is configured, a GET request without
\* bundle=1 whose function parameter is absent or not one of the four
\* statement kinds is answered 400 by the step that receives it, which makes
\* no upstream call, reads no cache entry and leaves the cache as it was.
C12_BadFunction400WhenConfigured ==
  [][\A r \in DOMAIN sent' :
       (HasKey(env) /\ sent'[r].pc = "done" /\ sent'[r].url.bundle # "1"
          /\ toUpperCase(sent'[r].url.function) \notin ALLOWED)
       => /\ TurnedAway(sent'[r], 400)
          /\ cache' = cache /\ inflight' = inflight /\ req' = req]_vars

C12_Witness ==
  \E r \in Delivered :
    /\ sent[r].pc = "done" /\ sent[r].url.function = "BOGUS" /\ sent[r].url.symbol = "aapl"
    /\ sent[r].url.bundle = "true"
    /\ sent[r].resp.status = 400
    /\ cache # <<>>

\* C13: an upstream answer with status 200 and an embedded throttle notice
\* (Note or Information) is never taken for a success: an attempt that got
\* one is retried if it was the first, and otherwise ends in a 429 that is
\* not handed to the cache; no 200 response and no cache entry carries a
\* notice.
C13_NoticeNeverSuccess ==
  /\ \A r \in 1..NReq :
       (req[r].notice /\ req[r].pc \in {"backoff", "put", "settle"}) =>
         /\ req[r].pc # "put"
         /\ req[r].pc = "backoff" => req[r].round = 1
         /\ req[r].pc = "settle" => (req[r].round = 2 /\ req[r].out.status = 429)
  /\ \A r \in Delivered :
       /\ (sent[r].src \in Delivered /\ sent[sent[r].src].notice) => sent[r].resp.status = 429
       /\ (sent[r].pc = "done" /\ sent[r].resp.status = 200) => CleanBody(sent[r], sent[r].resp.body)
  /\ \A k \in DOMAIN cache : CleanBody([bundle |-> k[3] = "BUNDLE"], cache[k].body)

C13_Witness ==
  \E r \in Delivered :
    /\ ~sent[r].bundle /\ sent[r].role = "owner" /\ sent[r].notice /\ sent[r].round = 2
    /\ sent[r].resp.status = 429
    /\ sent[r].resp.body.value.kind = "info"

\* C14: one single-statement producer run makes at most two upstream calls:
\* it backs off only after its first attempt, so the second attempt's result
\* is the run's result.
C14_AtMostTwoCalls ==
  /\ \A r \in 1..NReq :
       (req[r].pc # "idle" /\ ~req[r].bundle) =>
         /\ req[r].calls <= 2 /\ req[r].round <= 2 /\ req[r].calls = req[r].round
         /\ req[r].pc = "backoff" => req[r].round = 1
  /\ \A r \in Delivered :
       (sent[r].pc = "done" /\ ~sent[r].bundle) => sent[r].calls <= 2

C14_Witness ==
  \E r \in Delivered :
    /\ ~sent[r].bundle /\ sent[r].role = "owner" /\ sent[r].round = 2 /\ sent[r].calls = 2
    /\ sent[r].classes = {"rate_limited"}
    /\ sent[r].resp.status = 429

\* C15: the single-statement path makes a second attempt only when the first
\* attempt was classified rate_limited.
C15_RetryOnlyRateLimited ==
  \A r \in 1..NReq :
    (~req[r].bundle /\ req[r].role = "owner" /\ req[r].round = 2) => req[r].rl1

\* C16: a single-statement request whose final upstream answer is classified
\* bad_request (provider error message) is answered 400.
C16_BadRequest400 ==
  \A r \in Delivered :
    (~sent[r].bundle /\ sent[r].role = "owner" /\ sent[r].resp.status # -1
       /\ sent[r].classes = {"bad_request"})
    => sent[r].resp.status = 400

\* C17: a single-statement request whose final upstream answer is classified
\* upstream_failure (non-2xx that is no throttle, or unparseable body) is
\* answered 502.
C17_UpstreamFailure502 ==
  \A r \in Delivered :
    (~sent[r].bundle /\ sent[r].role = "owner" /\ sent[r].resp.status # -1
       /\ sent[r].classes = {"upstream_failure"})
    => sent[r].resp.status = 502

\* C18: while the credential is absent every GET request is answered 500 by
\* the step that receives it, without upstream call, cache lookup or cache
\* write, in bundle mode and in single-statement mode: no request gets past
\* the router and the cache and the flight registry stay empty.
C18_NoKey500 ==
  env.ALPHA_API_KEY = "" =>
    /\ Quiet /\ cache = <<>> /\ inflight = <<>>
    /\ \A r \in Delivered : sent[r].pc = "done" => TurnedAway(sent[r], 500)

C18_Witness ==
  \E r \in Delivered :
    /\ env.ALPHA_API_KEY = "" /\ sent[r].pc = "done"
    /\ sent[r].url.bundle = "1" /\ sent[r].url.symbol = "aapl" /\ sent[r].url.nocache = "1"
    /\ sent[r].resp.status = 500

\* C19: a 429 response carries Retry-After and is returned only when no
\* usable (fresh or stale) cached copy exists for the request's key at the
\* time of the response.
C19_429OnlyWithoutCopy ==
  \A r \in Delivered :
    sent[r].resp.status = 429 =>
      /\ Header(sent[r].resp, "Retry-After") = "65"
      /\ CacheMatch(cache, CacheKeyOf(sent[r])).status = 0

\* the CORS headers of a response
HasCors(response) ==
  \A name \in DOMAIN cors :
    name \in DOMAIN response.headers /\ response.headers[name] = cors[name]

\* C20: every response carries the CORS headers, and every response to a GET
\* request carries x-proxy-cache telling a hit from a miss.
C20_CorsAndDiagnostic ==
  \A r \in Delivered :
    sent[r].resp.status > 0 =>
      /\ HasCors(sent[r].resp)
      /\ sent[r].pc = "done" => Label(sent[r].resp) \in {"HIT", "MISS", "MISS-BUNDLE"}

\* the response of the bundle path: a four-section 200 (built or from the
\* cache under the bundle key) or the bundle's 429, after 0, 4 or 8 calls
BundleShaped(q) ==
  /\ q.bundle /\ CacheKeyOf(q) = cacheKeyStr(<<"BUNDLE", "AAPL">>)
  /\ q.resp.status \in {200, 429, -1}
  /\ q.resp.status = 200 =>
       (Label(q.resp) \in {"HIT", "MISS-BUNDLE"} /\ q.resp.body.value.type = "bundle")
  /\ q.resp.status = 429 => q.resp.body.value.kind = "bundle"
  /\ q.role = "owner" => q.calls \in {Len(BundleFunctions), 2 * Len(BundleFunctions)}
  /\ q.role = "none" => q.calls = 0

\* C21: a request with bundle=1 and a non-empty symbol is handled by the
\* bundle path whatever its function parameter: it is never answered 400,
\* and when the credential is configured it uses the bundle key and the
\* bundle flight and gets the bundle path's response.
C21_BundleIgnoresFunction ==
  /\ \A r \in Delivered :
       (sent[r].pc = "done" /\ sent[r].url.bundle = "1" /\ sent[r].url.symbol # "") =>
         /\ sent[r].resp.status # 400
         /\ env.ALPHA_API_KEY # "" => BundleShaped(sent[r])
  /\ \A r \in 1..NReq :
       (req[r].pc # "idle" /\ req[r].url.bundle = "1") =>
         /\ req[r].bundle
         /\ FlightKeyOf(req[r]) = cacheKeyStr(<<"BUNDLE-FETCH", "AAPL">>)
         /\ req[r].calls \in {0, Len(BundleFunctions), 2 * Len(BundleFunctions)}

C21_Witness ==
  \E r \in Delivered :
    /\ sent[r].pc = "done" /\ sent[r].url.bundle = "1" /\ sent[r].url.symbol = "aapl"
    /\ sent[r].url.function = "BOGUS"
    /\ sent[r].resp.status = 200 /\ Label(sent[r].resp) = "MISS-BUNDLE"

\* the class that the kind field of a failure response stands for
ClassOfKind(kind) ==
  IF kind \in {"429", "note", "info"} THEN "rate_limited"
  ELSE IF kind = "error" THEN "bad_request"
  ELSE "upstream_failure"

\* C22: the handler's classification of an upstream answer agrees with the
\* five-step priority order: a single-statement run ends in a success
\* exactly when its last answer is classified success, and otherwise in a
\* failure whose kind stands for the class of that answer.
C22_ClassifierAgrees ==
  \A r \in 1..NReq :
    (~req[r].bundle /\ req[r].pc \in {"put", "settle"}) =>
      IF req[r].out.status = 200
      THEN req[r].classes = {"success"}
      ELSE req[r].classes = {ClassOfKind(req[r].out.body.value.kind)}

\* C23: one bundle producer run issues at most two rounds of four upstream
\* calls; the four legs of a round are issued together; the second round is
\* issued only from the backoff wait, which is entered only with all the
\* answers of the first round in, and which is followed by the fetch of the
\* second round and by nothing else: one wait per bundle.
C23_BundleTwoRounds ==
  [][\A r \in 1..NReq :
       /\ (req[r].bundle /\ req[r].pc # "idle") =>
            /\ req[r].round \in {0, 1, 2}
            /\ req[r].calls = Len(BundleFunctions) * req[r].round
            /\ req[r].pc = "backoff" => (req[r].round = 1 /\ req[r].classes # {})
       /\ (req[r].bundle /\ req[r].pc # "idle" /\ req'[r].pc # "idle"
             /\ req'[r].round # req[r].round) =>
            /\ req'[r].round = req[r].round + 1
            /\ req'[r].calls = req[r].calls + Len(BundleFunctions)
            /\ req'[r].pc = "fetch"
            /\ req[r].round = 1 => req[r].pc = "backoff"
       /\ (req[r].bundle /\ req[r].pc = "backoff" /\ req'[r] # req[r]) =>
            (req'[r].pc = "fetch" /\ req'[r].round = 2)]_vars

C23_Witness ==
  \E r \in Delivered :
    /\ sent[r].bundle /\ sent[r].role = "owner"
    /\ sent[r].round = 2 /\ sent[r].calls = 2 * Len(BundleFunctions)

\* C24: a bundle producer run issues a second round if and only if some leg
\* of its first round was classified rate_limited.
C24_BundleRetryIffRateLimited ==
  \A r \in 1..NReq :
    (req[r].bundle /\ req[r].role = "owner") =>
      /\ req[r].round = 2 => req[r].rl1
      /\ (req[r].round = 1 /\ req[r].pc \in {"put", "settle"}) => ~req[r].rl1

\* C25: the flight registry holds exactly the producer runs in progress: an
\* entry is there from the start of a run to its end, however the run ends;
\* the registry is empty whenever no request is being handled; every joiner
\* waits for a run that is in progress.
C25_RegistryTracksRuns ==
  /\ Quiet => inflight = <<>>
  /\ \A key \in DOMAIN inflight :
       /\ req[inflight[key]].role = "owner"
       /\ req[inflight[key]].pc \in {"fetch", "backoff", "put", "settle"}
       /\ FlightKeyOf(req[inflight[key]]) = key
  /\ \A r \in 1..NReq :
       /\ req[r].role = "owner" =>
            (FlightKeyOf(req[r]) \in DOMAIN inflight /\ inflight[FlightKeyOf(req[r])] = r)
       /\ req[r].pc = "join" =>
            /\ FlightKeyOf(req[r]) \in DOMAIN inflight
            /\ inflight[FlightKeyOf(req[r])] = req[r].src
            /\ req[r].src # r
  /\ \A r \in Delivered :
       sent[r].role = "owner" => FlightKeyOf(sent[r]) \notin DOMAIN inflight

C25_Witness ==
  /\ Quiet /\ inflight = <<>>
  /\ \E r \in Delivered : \E x \in Delivered :
       /\ sent[r].role = "owner" /\ sent[r].resp.status = -1
       /\ sent[x].role = "joiner"

\* C26: a caller that finds its key pending never runs the producer, and
\* every awaiter of a run, owner and joiners, is handed a clone of the run's
\* result with the same status, headers and body, never the result itself.
C26_AwaitersGetClones ==
  /\ \A r \in 1..NReq :
       req[r].role = "joiner" => (req[r].pc = "join" /\ req[r].calls = 0 /\ req[r].round = 0)
  /\ \A r \in Delivered :
       sent[r].role = "joiner" => (sent[r].calls = 0 /\ sent[r].round = 0)
  /\ \A r \in Delivered :
       (sent[r].role \in {"owner", "joiner"} /\ sent[r].resp.status # -1) =>
         /\ sent[r].obj = "clone"
         /\ sent[r].src \in Delivered
         /\ sent[r].resp = sent[sent[r].src].out

C26_Witness ==
  \E r \in Delivered : \E x \in Delivered :
    /\ sent[r].role = "owner" /\ sent[x].role = "joiner" /\ sent[x].src = r
    /\ sent[r].resp.status = 200 /\ sent[x].resp.status = 200
    /\ sent[r].obj = "clone" /\ sent[x].obj = "clone"

\* C27: no cache entry is ever deleted, and the only step that changes an
\* entry is the cache.put of a producer whose latest attempt was clean on
\* every leg and whose result is a 200 for that entry's key; so a fetch that
\* fails (throttled, bad request, upstream failure, partial bundle failure,
\* rejection) leaves every existing entry in place and unchanged.
C27_FailureLeavesCache ==
  [][/\ \A k \in DOMAIN cache :
          /\ k \in DOMAIN cache'
          /\ cache'[k] # cache[k] =>
               \E r \in 1..NReq :
                 /\ req[r].pc = "put" /\ req'[r].pc = "settle"
                 /\ CacheKeyOf(req[r]) = k
                 /\ req[r].out.status = 200
                 /\ req[r].classes = {"success"}
     /\ \A r \in 1..NReq :
          (/\ req[r].pc \in {"fetch", "backoff", "settle"}
           /\ req'[r] # req[r]
           /\ req'[r].pc \in {"idle", "backoff", "fetch"} \/ req'[r].out.status # 200) =>
            cache' = cache]_vars

C27_Witness ==
  \E r \in Delivered :
    /\ sent[r].role = "owner" /\ sent[r].bundle
    /\ sent[r].resp.status = 429
    /\ "success" \in sent[r].classes /\ sent[r].classes # {"success"}
    /\ CacheMatch(cache, CacheKeyOf(sent[r])).status = 200

\* C28: when every cache operation, upstream call and timer eventually
\* returns, every request being handled (owner or joiner, bundle or single)
\* is eventually answered, and no request waits in backoff more than once.
C28_EveryRequestCompletes ==
  /\ \A r \in 1..NReq : (req[r].pc # "idle") ~> (req[r].pc = "idle" /\ r \in Delivered)
  /\ [][\A r \in 1..NReq :
          (req'[r].pc = "backoff" /\ req[r].pc # "backoff") => req[r].round = 1]_vars

C28_Witness ==
  \E r \in Delivered : \E x \in Delivered :
    /\ sent[r].role = "owner" /\ sent[r].bundle /\ sent[r].round = 2
    /\ sent[x].role = "joiner" /\ sent[x].src = r
    /\ sent[x].resp.status # 0

\* C29: the delay handed to setTimeout before the retry lies between 1000 and
\* 1800 milliseconds, for a single statement and for a bundle, whatever
\* Math.random() returns; no timer is pending outside the backoff.
C29_DelayInWindow ==
  \A r \in 1..NReq :
    /\ req[r].pc = "backoff" => (1000 <= req[r].delay /\ req[r].delay <= 1800)
    /\ req[r].pc # "backoff" => req[r].delay = 0
    /\ \A draw \in 0..(RandDen - 1) :
         req[r].pc = "backoff" => (1000 <= Delay(req[r], draw) /\ Delay(req[r], draw) <= 1800)

C29_Witness ==
  \E r \in 1..NReq :
    /\ req[r].pc = "backoff" /\ req[r].bundle /\ req[r].round = 1
    /\ req[r].delay = 1200 + ((RandDen - 1) * 600) \div RandDen

\* letters of the inputs folded to one case, and the queries of the grid that
\* differ from a query in letter case only
Fold(s) ==
  CASE s = "AAPL" -> "aapl"
    [] s = "OVERVIEW" -> "overview"
    [] OTHER -> s

Variants(u) ==
  {v \in CaseGrid : /\ Fold(v.function) = Fold(u.function)
                    /\ Fold(v.symbol) = Fold(u.symbol)
                    /\ v.bundle = u.bundle
                    /\ v.nocache = u.nocache}

\* a request that differs from u in letter case only has fetched successfully
\* and no fetch of that key has succeeded since
FetchedInSomeCase(u) ==
  \E v \in Variants(u) :
    /\ CacheKeyOf(Parsed(v)) \in DOMAIN lastOK
    /\ lastOK[CacheKeyOf(Parsed(v))].nocache = Parsed(v).nocache

\* C30 (as stated): two requests that differ in letter case only have the
\* same cache key and the same flight key, and a request that arrives after
\* one differing from it in letter case only has fetched successfully goes to
\* the cache lookup and finds an entry.
C30_CaseVariantHits ==
  [][\A r \in 1..NReq :
       (req[r].pc = "idle" /\ req'[r].pc # "idle") =>
         /\ \A v \in Variants(req'[r].url) :
              /\ CacheKeyOf(Parsed(v)) = CacheKeyOf(req'[r])
              /\ FlightKeyOf(Parsed(v)) = FlightKeyOf(req'[r])
         /\ FetchedInSomeCase(req'[r].url) =>
              /\ req'[r].pc = "match"
              /\ CacheMatch(cache, CacheKeyOf(req'[r])).status = 200]_vars

\* C30 (amended): two requests that differ in letter case only have the same
\* cache key and the same flight key, and a request without nocache=1 that
\* arrives after one differing from it in letter case only has fetched
\* successfully goes to the cache lookup, finds the body of that fetch and is
\* answered with it, labelled HIT; requests with nocache=1 always go live.
C30_CaseVariantHitsUnlessNocache ==
  [][\A r \in 1..NReq :
       /\ (req[r].pc = "idle" /\ req'[r].pc # "idle") =>
            /\ \A v \in Variants(req'[r].url) :
                 /\ CacheKeyOf(Parsed(v)) = CacheKeyOf(req'[r])
                 /\ FlightKeyOf(Parsed(v)) = FlightKeyOf(req'[r])
            /\ (FetchedInSomeCase(req'[r].url) /\ req'[r].url.nocache # "1") =>
                 /\ req'[r].pc = "match"
                 /\ CacheMatch(cache, CacheKeyOf(req'[r])).status = 200
                 /\ CacheMatch(cache, CacheKeyOf(req'[r])).body = lastOK[CacheKeyOf(req'[r])].body
            /\ req'[r].url.nocache = "1" => req'[r].pc = "fetch"
       /\ (req[r].pc = "matched" /\ req[r].hit.status = 200 /\ req'[r] # req[r]) =>
            /\ r \in DOMAIN sent'
            /\ Label(sent'[r].resp) = "HIT"
            /\ sent'[r].resp.body = req[r].hit.body]_vars

C30_Witness ==
  \E r \in Delivered :
    /\ Label(sent[r].resp) = "HIT" /\ sent[r].calls = 0
    /\ sent[r].url.symbol = "aapl" /\ sent[r].url.function = "overview" /\ ~sent[r].bundle
    /\ CacheKeyOf(sent[r]) \in DOMAIN lastOK
    /\ sent[r].resp.body = lastOK[CacheKeyOf(sent[r])].body
    /\ \E v \in Variants(sent[r].url) : v # sent[r].url

\* C31: at no time are two producer runs in progress for one flight key:
\* the test inflight.has(key) and inflight.set(key, p) run without a
\* suspension between them, so a request that finds the key pending joins,
\* and the registry names the one run in progress.
C31_OneRunPerFlightKey ==
  /\ \A r \in 1..NReq : \A x \in 1..NReq :
       (r # x /\ req[r].role = "owner" /\ req[x].role = "owner") =>
         FlightKeyOf(req[r]) # FlightKeyOf(req[x])
  /\ \A r \in 1..NReq :
       req[r].role = "owner" => req[r].pc \in {"fetch", "backoff", "put", "settle"}
  /\ \A r \in 1..NReq :
       req[r].role = "joiner" =>
         /\ req[r].src # r /\ req[req[r].src].role = "owner"
         /\ FlightKeyOf(req[req[r].src]) = FlightKeyOf(req[r])

C31_Witness ==
  \E r \in 1..NReq : \E x \in 1..NReq :
    /\ req[r].role = "owner" /\ req[r].pc = "fetch"
    /\ req[x].role = "joiner" /\ req[x].src = r /\ req[x].overlap
    /\ req[x].nocache # req[r].nocache

\* C32: the producer of a request without nocache=1 that has built a 200
\* result has stored it before it returns: while the result waits to be
\* delivered, and when it has been delivered and the registry entry is gone,
\* the cache holds an entry for the key with the body of that result.  The
\* registry entry is removed only in the step that delivers the result.
C32_StoredBeforeDelivered ==
  /\ \A r \in 1..NReq :
       (req[r].role = "owner" /\ ~req[r].nocache /\ req[r].pc = "settle"
          /\ req[r].out.status = 200) =>
         /\ CacheMatch(cache, CacheKeyOf(req[r])).status = 200
         /\ CacheMatch(cache, CacheKeyOf(req[r])).body = req[r].out.body
         /\ FlightKeyOf(req[r]) \in DOMAIN inflight
  /\ \A r \in 1..NReq :
       (req[r].role = "owner" /\ req[r].pc = "put") =>
         (~req[r].nocache /\ req[r].out.status = 200 /\ FlightKeyOf(req[r]) \in DOMAIN inflight)
  /\ \A r \in Delivered :
       (sent[r].role = "owner" /\ ~sent[r].nocache /\ sent[r].resp.status = 200) =>
         /\ FlightKeyOf(sent[r]) \notin DOMAIN inflight
         /\ CacheMatch(cache, CacheKeyOf(sent[r])).status = 200
         /\ CacheMatch(cache, CacheKeyOf(sent[r])).body = sent[r].resp.body

C32_Witness ==
  \E r \in Delivered :
    /\ sent[r].role = "owner" /\ ~sent[r].nocache /\ sent[r].resp.status = 200
    /\ sent[r].round = 2
    /\ FlightKeyOf(sent[r]) \notin DOMAIN inflight
    /\ CacheMatch(cache, CacheKeyOf(sent[r])).body = sent[r].resp.body

\* C33: whenever a request without nocache=1 is answered 200 from a live
\* fetch (a run it owned or joined), the cache holds an entry for its key at
\* that moment.
C33_NormalLive200Cached ==
  \A r \in Delivered :
    (/\ ~sent[r].nocache
     /\ sent[r].role \in {"owner", "joiner"}
     /\ sent[r].resp.status = 200) =>
      CacheMatch(cache, CacheKeyOf(sent[r])).status = 200

\* the flight keys that bundle requests use, and those that single-statement
\* requests use
BundleFlightKeys == {FlightKeyOf(Parsed(v)) : v \in {u \in KeyGrid : u.bundle = "1"}}
SingleFlightKeys == {FlightKeyOf(Parsed(v)) : v \in {u \in KeyGrid : u.bundle # "1"}}

\* the entry stored under k is a bundle's
BundleEntry(k) == cache[k].body.value.type = "bundle"

\* C34: bundle entries and single-statement entries are disjoint: no flight
\* key of a bundle is the flight key of a single statement; a lookup by a
\* single-statement request never returns a bundle's entry, nor the reverse;
\* no entry is removed; a bundle request's write replaces no single
\* statement's entry, and a single-statement request's write replaces no
\* bundle's entry and no entry of a request for another function or symbol.
C34_BundleSingleDisjoint ==
  [][/\ BundleFlightKeys \cap SingleFlightKeys = {}
     /\ \A r \in 1..NReq :
          (req[r].pc = "match" /\ req'[r].pc = "matched" /\ req'[r].hit.status # 0) =>
            (req'[r].hit.body.value.type = "bundle") = req[r].bundle
     /\ \A k \in DOMAIN cache :
          /\ k \in DOMAIN cache'
          /\ cache'[k] # cache[k] =>
               \E r \in 1..NReq :
                 /\ req[r].pc = "put" /\ req'[r].pc = "settle"
                 /\ BundleEntry(k) = req[r].bundle
                 /\ \A v \in KeyGrid :
                      (/\ ~req[r].bundle /\ v.bundle # "1"
                       /\ v.function # req[r].url.function \/ v.symbol # req[r].url.symbol) =>
                        CacheKeyOf(Parsed(v)) # k]_vars

\* C35: a response labelled HIT is returned only by a request that looked
\* the cache up, found an entry, made no upstream call and entered no flight,
\* and it carries that entry's body; a 200 labelled MISS or MISS-BUNDLE is
\* returned only to the owner or a joiner of a run that made an upstream
\* call; every stored entry carries the label MISS or MISS-BUNDLE, which the
\* served response replaces by HIT.
C35_LabelsTellTheSource ==
  /\ \A k \in DOMAIN cache : Label(cache[k]) \in {"MISS", "MISS-BUNDLE"}
  /\ \A r \in Delivered :
       Label(sent[r].resp) = "HIT" =>
         /\ sent[r].calls = 0 /\ sent[r].round = 0 /\ sent[r].role = "none"
         /\ sent[r].hit.status = 200
         /\ Label(sent[r].hit) \in {"MISS", "MISS-BUNDLE"}
         /\ sent[r].resp.body = sent[r].hit.body
  /\ \A r \in Delivered :
       (sent[r].resp.status = 200 /\ Label(sent[r].resp) \in {"MISS", "MISS-BUNDLE"}) =>
         /\ sent[r].role \in {"owner", "joiner"}
         /\ sent[r].hit.status = 0
         /\ sent[r].src \in Delivered
         /\ sent[sent[r].src].role = "owner"
         /\ sent[sent[r].src].calls >= 1
  /\ \A r \in Delivered :
       (sent[r].resp.status = 200 /\ sent[r].pc = "done") =>
         Label(sent[r].resp) \in {"HIT", "MISS", "MISS-BUNDLE"}

C35_Witness ==
  \E r \in Delivered :
    /\ Label(sent[r].resp) = "HIT" /\ Label(sent[r].hit) = "MISS-BUNDLE"
    /\ sent[r].calls = 0 /\ sent[r].role = "none"
    /\ CacheKeyOf(sent[r]) \in DOMAIN cache
    /\ Label(cache[CacheKeyOf(sent[r])]) = "MISS-BUNDLE"

====
